---- MODULE Spec2Model ----
(***************************************************************************)
(* Model of the shell built-ins of src/posix/sh/builtin/mod.rs: the        *)
(* dispatcher Builtin::execute with its three descriptor-resolution        *)
(* layers, and the bodies of exec, exit, export, unset and read.           *)
(*                                                                         *)
(* Byte strings (OsString, Vec<u8>) are sequences of byte values.          *)
(***************************************************************************)
EXTENDS Integers, Sequences, FiniteSets, TLC

VARIABLES env, funcs, fds, lastStatus, out, calls, rd

vars == <<env, funcs, fds, lastStatus, out, calls, rd>>

(***************************************************************************)
(* Bounds of the model.                                                    *)
(***************************************************************************)
\* longest stdin content enumerated for the read pipeline
MaxLen == 5
\* largest number of variable names given to read in the read pipeline
MaxVars == 3
\* longest stdin content enumerated in a shell session
MaxSessionLen == 2
\* number of built-in invocations of a shell session
MaxCalls == 1

(***************************************************************************)
(* Bytes.                                                                  *)
(***************************************************************************)
\* b'\n'
NL == 10
\* b'\\'
BS == 92

\* the bytes inputs are made of: space, ':', backslash, newline
Alphabet == {32, 58, BS, NL}

SeqsUpTo(S, n) == UNION {[1..k -> S] : k \in 0..n}

\* "abc\<nl>def<nl>", "a\<nl>" and "a:b:c<nl>"
ExampleInputs ==
    { <<97, 98, 99, BS, NL, 100, 101, 102, NL>>,
      <<97, BS, NL>>,
      <<97, 58, 98, 58, 99, NL>> }

Inputs == SeqsUpTo(Alphabet, MaxLen) \cup ExampleInputs

SessionInputs == SeqsUpTo(Alphabet, MaxSessionLen) \cup {<<97, NL>>}

\* the i-th variable name: "x", "y", "z", ...
VarName(i) == <<119 + i>>

\* "IFS"
NameIFS == <<73, 70, 83>>

\* " \t\n"
DefaultIFS == <<32, 9, NL>>

Pop(s) == SubSeq(s, 1, Len(s) - 1)

Range(s) == {s[i] : i \in 1..Len(s)}

(***************************************************************************)
(* Environment: name -> (value, set, exported, readonly), and the          *)
(* function table.                                                         *)
(***************************************************************************)
NoVar == [val |-> <<>>, set |-> FALSE, exported |-> FALSE, readonly |-> FALSE]

Entry(e, name) == IF name \in DOMAIN e THEN e[name] ELSE NoVar

Put(e, name, entry) ==
    [n \in DOMAIN e \cup {name} |-> IF n = name THEN entry ELSE e[n]]

\* Environment::get_var: the value, when the variable has one
has_var(e, name) == name \in DOMAIN e /\ e[name].set

get_var(e, name) == e[name].val

\* Environment::set_var
set_var(e, name, value) ==
    Put(e, name, [Entry(e, name) EXCEPT !.val = value, !.set = TRUE])

\* Environment::export_var: marks the variable called `name` exported
export_var(e, name) ==
    Put(e, name, [Entry(e, name) EXCEPT !.exported = TRUE])

\* Environment::remove_var
remove_var(e, name) == [n \in DOMAIN e \ {name} |-> e[n]]

\* Environment::remove_func
remove_func(f, name) == f \ {name}

\* Environment::export_iter: the exported variables that have a value
export_iter(e) ==
    [n \in {m \in DOMAIN e : e[m].exported /\ e[m].set} |-> e[n].val]

(***************************************************************************)
(* read: line acquisition.                                                 *)
(***************************************************************************)
\* BufRead::read_until(b'\n'): the bytes up to and including the first
\* newline, or all of them when there is none
read_until(input) ==
    IF \E i \in 1..Len(input) : input[i] = NL
    THEN LET p == CHOOSE i \in 1..Len(input) :
                      /\ input[i] = NL
                      /\ \A j \in 1..(i - 1) : input[j] # NL
         IN  [line |-> SubSeq(input, 1, p),
              rest |-> SubSeq(input, p + 1, Len(input))]
    ELSE [line |-> input, rest |-> <<>>]

\* buffer.iter().rev().skip(k).take_while(|b| b == b'\\').count()
RECURSIVE RevRun(_, _)
RevRun(buffer, k) ==
    IF Len(buffer) - k >= 1 /\ buffer[Len(buffer) - k] = BS
    THEN 1 + RevRun(buffer, k + 1)
    ELSE 0

\* the parity test without skip(1): counts the last backslash too
RECURSIVE check_backslash_noskip(_)
check_backslash_noskip(buffer) ==
    IF buffer = <<>> THEN [buffer |-> buffer, res |-> TRUE]
    ELSE IF buffer[Len(buffer)] = NL THEN check_backslash_noskip(Pop(buffer))
    ELSE IF buffer[Len(buffer)] = BS
         THEN [buffer |-> buffer, res |-> (RevRun(buffer, 0) % 2 = 1)]
         ELSE [buffer |-> buffer, res |-> TRUE]

\* the closure check_backslash: strips the trailing newlines of the buffer
\* and says whether its last byte is NOT an unescaped backslash
RECURSIVE check_backslash(_)
check_backslash(buffer) ==
    IF buffer = <<>> THEN [buffer |-> buffer, res |-> TRUE]
    ELSE IF buffer[Len(buffer)] = NL THEN check_backslash(Pop(buffer))
    ELSE IF buffer[Len(buffer)] = BS
         THEN [buffer |-> buffer, res |-> (RevRun(buffer, 1) % 2 = 1)]
         ELSE [buffer |-> buffer, res |-> TRUE]

\* one iteration of the acquisition loop
LoopIter(buffer, input, ignore_backslash) ==
    LET r  == read_until(input)
        cb == check_backslash(buffer \o r.line)
    IN  IF ignore_backslash \/ cb.res
        THEN [buffer |-> cb.buffer, input |-> r.rest, line |-> r.line,
              done |-> TRUE]
        ELSE [buffer |-> Pop(cb.buffer), input |-> r.rest, line |-> r.line,
              done |-> FALSE]

\* the whole acquisition loop: the assembled buffer
RECURSIVE Acquire(_, _, _)
Acquire(buffer, input, ignore_backslash) ==
    LET it == LoopIter(buffer, input, ignore_backslash)
    IN  IF it.done THEN it.buffer
        ELSE Acquire(it.buffer, it.input, ignore_backslash)

(***************************************************************************)
(* read: field splitting, escape resolution, assignment.                   *)
(***************************************************************************)
\* the delimiter bytes: $IFS, or " \t\n" when IFS has no value
IfsOf(e) == IF has_var(e, NameIFS) THEN get_var(e, NameIFS) ELSE DefaultIFS

FirstDelim(v, ifs) ==
    IF \E i \in 1..Len(v) : v[i] \in Range(ifs)
    THEN CHOOSE i \in 1..Len(v) :
             /\ v[i] \in Range(ifs)
             /\ \A j \in 1..(i - 1) : v[j] \notin Range(ifs)
    ELSE 0

\* a split that stops after the n-th field and drops what follows it
RECURSIVE split_take(_, _, _)
split_take(v, n, ifs) ==
    IF n = 0 THEN <<>>
    ELSE LET p == FirstDelim(v, ifs)
         IN  IF p = 0 THEN <<v>>
             ELSE <<SubSeq(v, 1, p - 1)>>
                      \o split_take(SubSeq(v, p + 1, Len(v)), n - 1, ifs)

\* slice::splitn(n, pred): at most n fields, the last one holding the rest
RECURSIVE splitn(_, _, _)
splitn(v, n, ifs) ==
    IF n = 0 THEN <<>>
    ELSE IF n = 1 THEN <<v>>
    ELSE LET p == FirstDelim(v, ifs)
         IN  IF p = 0 THEN <<v>>
             ELSE <<SubSeq(v, 1, p - 1)>>
                      \o splitn(SubSeq(v, p + 1, Len(v)), n - 1, ifs)

\* the escape loop over one field, from byte i on
RECURSIVE EscapeLoop(_, _, _, _)
EscapeLoop(value, i, result, in_escape) ==
    IF i > Len(value) THEN [result |-> result, in_escape |-> in_escape]
    ELSE IF in_escape
         THEN EscapeLoop(value, i + 1, Append(result, value[i]), FALSE)
    ELSE IF value[i] = BS
         THEN EscapeLoop(value, i + 1, result, TRUE)
         ELSE EscapeLoop(value, i + 1, Append(result, value[i]), FALSE)

\* the value assigned for a field, with the escape flag the loop ends in
FieldValue(value, ignore_backslash) ==
    IF ignore_backslash THEN [result |-> value, in_escape |-> FALSE]
    ELSE EscapeLoop(value, 1, <<>>, FALSE)

\* for (var, value) in vars.zip(field_iter) { env.set_var(var, value) }
RECURSIVE AssignFields(_, _, _, _, _)
AssignFields(e, names, fields, ignore_backslash, i) ==
    IF i > Len(names) \/ i > Len(fields) THEN e
    ELSE AssignFields(
             set_var(e, names[i], FieldValue(fields[i], ignore_backslash).result),
             names, fields, ignore_backslash, i + 1)

(***************************************************************************)
(* Argument lists (ExecData.args) and their parsing.                       *)
(***************************************************************************)
\* "-f", "-v", "-r"
FlagF == <<45, 102>>

FlagV == <<45, 118>>

FlagR == <<45, 114>>

\* "--", the end-of-options marker
DashDash == <<45, 45>>

\* a token clap reads as a group of short flags: '-' and then one or more
\* characters, the first of them not '-'
IsShortGroup(tok) == Len(tok) >= 2 /\ tok[1] = 45 /\ tok[2] # 45

\* a token clap reads as a long option: "--" and then at least a character
IsLong(tok) == Len(tok) >= 3 /\ tok[1] = 45 /\ tok[2] = 45

\* the short flags of "unset" and the flags each one overrides:
\* 'f' (overrides_with "variable") and 'v' give way to one another
UnsetFlags == [c \in {102, 118} |-> {102, 118} \ {c}]

\* the short flag of "read": 'r'
ReadFlags == [c \in {114} |-> {}]

\* the parser before the first token: no flag seen, no positional, options
\* not yet ended
ParseStart == [ok |-> TRUE, present |-> {}, names |-> <<>>, ended |-> FALSE]

\* one short flag c: an unknown flag is an error (clap's own -h and -V
\* end as an Err as well), so is a flag already present (none of the flags
\* is .multiple); the flags c overrides are dropped
ShortFlag(st, c, flags) ==
    IF c \notin DOMAIN flags \/ c \in st.present
    THEN [st EXCEPT !.ok = FALSE]
    ELSE [st EXCEPT !.present = (st.present \ flags[c]) \cup {c}]

\* the characters j.. of a group of short flags, one by one
RECURSIVE ShortGroup(_, _, _, _)
ShortGroup(st, tok, j, flags) ==
    IF j > Len(tok) \/ ~st.ok THEN st
    ELSE ShortGroup(ShortFlag(st, tok[j], flags), tok, j + 1, flags)

\* one token: after "--" every token is a positional; "--" ends the
\* options; a long option is an error (the apps define none); a group of
\* short flags is taken flag by flag; anything else, "-" included, is a
\* positional
Token(st, tok, flags) ==
    IF st.ended THEN [st EXCEPT !.names = Append(st.names, tok)]
    ELSE IF tok = DashDash THEN [st EXCEPT !.ended = TRUE]
    ELSE IF IsLong(tok) THEN [st EXCEPT !.ok = FALSE]
    ELSE IF IsShortGroup(tok) THEN ShortGroup(st, tok, 2, flags)
    ELSE [st EXCEPT !.names = Append(st.names, tok)]

\* get_matches_from_safe: the tokens i.. of the argument list, left to right
RECURSIVE Matches(_, _, _, _)
Matches(st, args, i, flags) ==
    IF i > Len(args) \/ ~st.ok THEN st
    ELSE Matches(Token(st, args[i], flags), args, i + 1, flags)

UnsetMatches(st) ==
    [ok |-> st.ok, func |-> 102 \in st.present, names |-> st.names]

\* App::new("unset") ... get_matches_from_safe(data.args)
ParseUnset(args) == UnsetMatches(Matches(ParseStart, args, 1, UnsetFlags))

ReadMatches(st) ==
    [ok |-> st.ok /\ st.names # <<>>, raw |-> 114 \in st.present,
     names |-> st.names]

\* App::new("read") ... get_matches_from_safe(data.args); VARS is required
ParseRead(args) == ReadMatches(Matches(ParseStart, args, 1, ReadFlags))

(***************************************************************************)
(* Descriptor bindings (EnvFd) and the results of a built-in body.         *)
(***************************************************************************)
\* "Other" is any EnvFd variant the three matches of the dispatcher leave
\* to their `_` arm
Bindings == {"File", "Fd", "Piped", "Null", "Other"}

\* the match on the cloned binding: File, Fd, Piped and Null resolve to a
\* stream, every other variant reaches `_ => unimplemented!()`
Resolves(binding) == binding \in {"File", "Fd", "Piped", "Null"}

\* EnvFd::try_clone: cloning an open file or a raw descriptor duplicates
\* the descriptor, which can fail
try_clone(binding, dup_fails) == ~(binding \in {"File", "Fd"} /\ dup_fails)

\* UtilRead::raw_fd / UtilWrite::raw_fd of the stream a binding resolves
\* to: a File or a raw descriptor has one, a byte buffer, io::empty() and
\* io::sink() have none
raw_fd(binding) == binding \in {"File", "Fd"}

\* lock_reader()? and read_until(..)? on the resolved stdin: reading a
\* File or a raw descriptor can fail, a byte buffer and io::empty() cannot
read_fails(binding, io_fails) == binding \in {"File", "Fd"} /\ io_fails

\* the bytes the resolved stdin yields: io::empty() for Null
StdinBytes(binding, content) == IF binding = "Null" THEN <<>> ELSE content

Merge(a, b) ==
    [n \in DOMAIN a \cup DOMAIN b |-> IF n \in DOMAIN b THEN b[n] ELSE a[n]]

Result(kind, code, e, f, image) ==
    [kind |-> kind, code |-> code, env |-> e, funcs |-> f, image |-> image]

(***************************************************************************)
(* The built-in bodies.                                                    *)
(***************************************************************************)
\* ExecBuiltin::run
ExecRun(e, f, fdt, data, o) ==
    IF data.args = <<>> THEN Result("ok", 0, e, f, <<>>)
    ELSE IF \E i \in 0..2 : raw_fd(fdt[i]) /\ i \in o.execFail
         THEN Result("err", 0, e, f, <<>>)
    ELSE IF o.launch
         THEN Result("replaced", 0, e, f,
                     [prog |-> Head(data.args),
                      args |-> Tail(data.args),
                      env  |-> Merge(export_iter(e), data.env),
                      fd   |-> [i \in 0..2 |->
                                   IF raw_fd(fdt[i]) THEN "dup" ELSE "inherit"]])
         ELSE Result("err", 0, e, f, <<>>)

\* ExitBuiltin::run: unimplemented!()
ExitRun(e, f, data) == Result("panic", 0, e, f, <<>>)

RECURSIVE ExportAll(_, _, _)
ExportAll(e, args, i) ==
    IF i > Len(args) THEN e
    ELSE ExportAll(export_var(e, args[i]), args, i + 1)

\* ExportBuiltin::run
ExportRun(e, f, data) == Result("ok", 0, ExportAll(e, data.args, 1), f, <<>>)

RECURSIVE RemoveVars(_, _, _)
RemoveVars(e, names, i) ==
    IF i > Len(names) THEN e
    ELSE RemoveVars(remove_var(e, names[i]), names, i + 1)

RECURSIVE RemoveFuncs(_, _, _)
RemoveFuncs(f, names, i) ==
    IF i > Len(names) THEN f
    ELSE RemoveFuncs(remove_func(f, names[i]), names, i + 1)

\* UnsetBuiltin::run
UnsetRun(e, f, data) ==
    LET m == ParseUnset(data.args)
    IN  IF ~m.ok THEN Result("err", 0, e, f, <<>>)
        ELSE IF m.func
             THEN Result("ok", 0, e, RemoveFuncs(f, m.names, 1), <<>>)
             ELSE Result("ok", 0, RemoveVars(e, m.names, 1), f, <<>>)

\* ReadBuiltin::run
ReadRun(e, f, data, input, io_fails) ==
    LET m == ParseRead(data.args)
    IN  IF ~m.ok THEN Result("err", 0, e, f, <<>>)
        ELSE IF io_fails THEN Result("err", 0, e, f, <<>>)
        ELSE LET buffer == Acquire(<<>>, input, m.raw)
                 fields == splitn(buffer, Len(m.names), IfsOf(e))
             IN  Result("ok", 0, AssignFields(e, m.names, fields, m.raw, 1),
                        f, <<>>)

(***************************************************************************)
(* The dispatcher.                                                         *)
(***************************************************************************)
\* Builtin::execute_stderr: builds the UtilData and runs the body
execute_stderr(b, e, f, fdt, data, o) ==
    CASE b = "exec"   -> ExecRun(e, f, fdt, data, o)
      [] b = "exit"   -> ExitRun(e, f, data)
      [] b = "export" -> ExportRun(e, f, data)
      [] b = "read"   -> ReadRun(e, f, data, StdinBytes(fdt[0], o.input),
                                   read_fails(fdt[0], o.ioFail))
      [] b = "unset"  -> UnsetRun(e, f, data)

\* Builtin::execute_stdout: resolves descriptor 2
execute_stdout(b, e, f, fdt, data, o) ==
    IF ~try_clone(fdt[2], 2 \in o.dupFail) THEN Result("err", 0, e, f, <<>>)
    ELSE IF ~Resolves(fdt[2]) THEN Result("panic", 0, e, f, <<>>)
    ELSE execute_stderr(b, e, f, fdt, data, o)

\* Builtin::execute_stdin: resolves descriptor 1
execute_stdin(b, e, f, fdt, data, o) ==
    IF ~try_clone(fdt[1], 1 \in o.dupFail) THEN Result("err", 0, e, f, <<>>)
    ELSE IF ~Resolves(fdt[1]) THEN Result("panic", 0, e, f, <<>>)
    ELSE execute_stdout(b, e, f, fdt, data, o)

\* the end of Builtin::execute: Ok(m) is passed on, Err(f) becomes one
\* diagnostic line and status 1; a panic or a replaced image is neither
Boundary(res) ==
    CASE res.kind = "ok" ->
             [kind |-> "returned", code |-> res.code, diag |-> 0,
              env |-> res.env, funcs |-> res.funcs, image |-> <<>>]
      [] res.kind = "err" ->
             [kind |-> "returned", code |-> 1, diag |-> 1,
              env |-> res.env, funcs |-> res.funcs, image |-> <<>>]
      [] OTHER ->
             [kind |-> res.kind, code |-> 0, diag |-> 0,
              env |-> res.env, funcs |-> res.funcs, image |-> res.image]

\* Builtin::execute: resolves descriptor 0 (its failure leaves through `?`
\* as an Err for the caller), then runs the inner layers
execute(b, e, f, fdt, data, o) ==
    IF ~try_clone(fdt[0], 0 \in o.dupFail)
    THEN [kind |-> "error", code |-> 0, diag |-> 0, env |-> e, funcs |-> f,
          image |-> <<>>]
    ELSE IF ~Resolves(fdt[0])
    THEN [kind |-> "panic", code |-> 0, diag |-> 0, env |-> e, funcs |-> f,
          image |-> <<>>]
    ELSE Boundary(execute_stdin(b, e, f, fdt, data, o))

(***************************************************************************)
(* A shell session: Init draws the Environment and the bindings of         *)
(* descriptors 0, 1 and 2; each action is one invocation of a built-in     *)
(* through Builtin::execute.                                               *)
(***************************************************************************)
\* the read pipeline state of a session: not running on its own
RdIdle ==
    [pc |-> "idle", input |-> <<>>, rest |-> <<>>, buffer |-> <<>>,
     prev |-> <<>>, line |-> <<>>, raw |-> FALSE, n |-> 1, lines |-> 0,
     ifs |-> <<>>, fields |-> <<>>, escapes |-> <<>>]

\* "o", the value variables hold at the start
Old == <<111>>

SessionEnvs ==
    { Merge(Merge(ex, [k \in {VarName(2)} |-> [NoVar EXCEPT !.val = Old, !.set = TRUE]]), ei) :
        ex \in {<<>>}
               \cup {[k \in {VarName(1)} |->
                        [NoVar EXCEPT !.val = Old, !.set = TRUE, !.readonly = ro]]
                       : ro \in BOOLEAN},
        ei \in {<<>>, [k \in {NameIFS} |-> [NoVar EXCEPT !.val = <<58>>, !.set = TRUE]]} }

Init ==
    /\ env \in SessionEnvs
    /\ funcs = {VarName(1)}
    /\ fds \in [0..2 -> Bindings]
    /\ lastStatus \in {0, 1}
    /\ out = [kind |-> "none"]
    /\ calls = 0
    /\ rd = RdIdle

\* what the operating system answers during one invocation: the descriptors
\* whose duplication fails, whether the exec call succeeds, the bytes on
\* stdin, whether reading stdin fails
NoOracle ==
    [dupFail |-> {}, execFail |-> {}, launch |-> FALSE, input |-> <<>>,
     ioFail |-> FALSE]

\* at most one descriptor fails to duplicate: the first failure returns
DupFailures == {{}} \cup {{i} : i \in 0..2}

\* a panic or a replaced process image ends the session
Running == calls < MaxCalls /\ out.kind \notin {"panic", "replaced"}

\* the session state after an invocation that ended as r
Outcome(r, b, data, o) ==
    [env        |-> r.env,
     funcs      |-> r.funcs,
     lastStatus |-> IF r.kind = "returned" THEN r.code ELSE lastStatus,
     out        |-> [kind |-> r.kind, code |-> r.code, diag |-> r.diag,
                     image |-> r.image, builtin |-> b, args |-> data.args,
                     input |-> StdinBytes(fds[0], o.input),
                     dupFail |-> {i \in o.dupFail : fds[i] \in {"File", "Fd"}},
                     execFail |-> o.execFail,
                     ioFail |-> read_fails(fds[0], o.ioFail),
                     before |-> env, funcsBefore |-> funcs,
                     prevStatus |-> lastStatus]]

\* one invocation: the command executor calls Builtin::execute and keeps
\* the status it returns
Invoke(b, data, o) == Outcome(execute(b, env, funcs, fds, data, o), b, data, o)

Commit(p) ==
    /\ env' = p.env
    /\ funcs' = p.funcs
    /\ lastStatus' = p.lastStatus
    /\ out' = p.out

\* "p", a program name
ExecArgs == {<<>>, << <<112>> >>}

\* per-invocation overrides of exec: none, or x=v
ExecOverrides == {<<>>, [k \in {VarName(1)} |-> <<118>>]}

\* "", "3", "300", "x"
ExitArgs == {<<>>, << <<51>> >>, << <<51, 48, 48>> >>, << <<120>> >>}

\* "x", "y", "x=a", "y="
ExportTokens == {VarName(1), VarName(2), VarName(1) \o <<61, 97>>, VarName(2) \o <<61>>}

ExportArgs == {<<t>> : t \in ExportTokens}
                  \cup {<<VarName(1) \o <<61, 97>>, VarName(2)>>}

UnsetNames == {<<>>, <<VarName(1)>>, <<VarName(2)>>, <<VarName(1), VarName(2)>>}

\* no flag, -v, -f; the unknown flag -q; -f -v, -v -f, -fv, -f -f;
\* "--" before the names, "--" before -f
UnsetArgs == UnsetNames \cup {<<fl>> \o ns : fl \in {FlagF, FlagV}, ns \in UnsetNames}
                 \cup {<< <<45, 113>>, VarName(1) >>}
                 \cup {fls \o <<VarName(1)>> :
                         fls \in {<<FlagF, FlagV>>, <<FlagV, FlagF>>,
                                  << <<45, 102, 118>> >>, <<FlagF, FlagF>>,
                                  <<DashDash>>, <<DashDash, FlagF>>,
                                  <<FlagV, DashDash>>}}

\* no flag, -r; "--" before the names, -r before "--", -r after "--",
\* -r -r, the unknown flag -q
ReadArgs == {fl \o ns : fl \in {<<>>, <<FlagR>>},
                        ns \in {<<>>, <<VarName(1)>>, <<VarName(1), VarName(2)>>}}
                \cup {<<DashDash, VarName(1)>>, <<FlagR, DashDash, VarName(1)>>,
                      <<DashDash, FlagR>>, <<FlagR, FlagR, VarName(1)>>,
                      << <<45, 113>>, VarName(1) >>}

ExecuteExec ==
    /\ Running
    /\ \E args \in ExecArgs, ov \in ExecOverrides, df \in DupFailures,
          ef \in DupFailures, launch \in BOOLEAN :
           Commit(Invoke("exec", [args |-> args, env |-> ov],
                           [NoOracle EXCEPT !.dupFail = df, !.execFail = ef,
                                            !.launch = launch]))
    /\ calls' = calls + 1
    /\ UNCHANGED <<fds, rd>>

ExecuteExit ==
    /\ Running
    /\ \E args \in ExitArgs, df \in DupFailures :
           Commit(Invoke("exit", [args |-> args, env |-> <<>>],
                           [NoOracle EXCEPT !.dupFail = df]))
    /\ calls' = calls + 1
    /\ UNCHANGED <<fds, rd>>

ExecuteExport ==
    /\ Running
    /\ \E args \in ExportArgs, df \in DupFailures :
           Commit(Invoke("export", [args |-> args, env |-> <<>>],
                           [NoOracle EXCEPT !.dupFail = df]))
    /\ calls' = calls + 1
    /\ UNCHANGED <<fds, rd>>

ExecuteUnset ==
    /\ Running
    /\ \E args \in UnsetArgs, df \in DupFailures :
           Commit(Invoke("unset", [args |-> args, env |-> <<>>],
                           [NoOracle EXCEPT !.dupFail = df]))
    /\ calls' = calls + 1
    /\ UNCHANGED <<fds, rd>>

ExecuteRead ==
    /\ Running
    /\ \E args \in ReadArgs, input \in SessionInputs, df \in DupFailures,
          io \in BOOLEAN :
           Commit(Invoke("read", [args |-> args, env |-> <<>>],
                           [NoOracle EXCEPT !.dupFail = df, !.input = input,
                                            !.ioFail = io]))
    /\ calls' = calls + 1
    /\ UNCHANGED <<fds, rd>>

Next == ExecuteExec \/ ExecuteExit \/ ExecuteExport \/ ExecuteUnset \/ ExecuteRead

Spec == Init /\ [][Next]_vars

(***************************************************************************)
(* Properties of one invocation, checked under Spec.  `out` describes the  *)
(* last invocation: what was called, how it ended, the Environment before. *)
(***************************************************************************)
Called(b) == out.kind # "none" /\ out.builtin = b

\* the arguments are ones the built-in's grammar rejects
BadArguments ==
    \/ Called("read") /\ ~ParseRead(out.args).ok
    \/ Called("unset") /\ ~ParseUnset(out.args).ok

\* C1: an invocation never ends as an error handed to the caller or as a
\* panic; when duplicating descriptor 0, 1 or 2 fails, or the body fails
\* (arguments its grammar rejects, an input that cannot be read),
\* execute returns status 1 after one diagnostic line.
C1_ErrorsBecomeStatus ==
    out.kind # "none" =>
        /\ out.kind \notin {"error", "panic"}
        /\ (out.dupFail # {} \/ BadArguments \/ out.ioFail) =>
               (out.kind = "returned" /\ out.code = 1 /\ out.diag = 1)

\* position of the first '=' of a token, 0 when it has none
EqualsAt(tok) ==
    IF \E i \in 1..Len(tok) : tok[i] = 61
    THEN CHOOSE i \in 1..Len(tok) : tok[i] = 61 /\ \A j \in 1..(i - 1) : tok[j] # 61
    ELSE 0

\* C2: after export returns 0, each token name=value has left a variable
\* `name` holding `value` and marked exported; a bare name is marked
\* exported with its value unchanged.
C2_ExportAssigns ==
    (Called("export") /\ out.kind = "returned" /\ out.code = 0) =>
        \A i \in 1..Len(out.args) :
            LET tok == out.args[i]
                q   == EqualsAt(tok)
                nm  == IF q = 0 THEN tok ELSE SubSeq(tok, 1, q - 1)
            IN  /\ nm \in DOMAIN env
                /\ env[nm].exported
                /\ IF q = 0
                   THEN /\ env[nm].set = Entry(out.before, nm).set
                        /\ env[nm].val = Entry(out.before, nm).val
                   ELSE /\ env[nm].set
                        /\ env[nm].val = SubSeq(tok, q + 1, Len(tok))

\* C3: after `unset -v n1 ... nk`, every named variable that was not
\* read-only is absent, every read-only one is kept as it was, and the
\* status is nonzero exactly when a named variable was read-only.
C3_UnsetReadonly ==
    (Called("unset") /\ out.kind = "returned" /\ out.dupFail = {}
       /\ out.args # <<>> /\ Head(out.args) = FlagV
       /\ ParseUnset(out.args).ok /\ ~ParseUnset(out.args).func) =>
        LET names == Range(ParseUnset(out.args).names)
            ro(n) == Entry(out.before, n).readonly
        IN  /\ \A n \in names : ~ro(n) => n \notin DOMAIN env
            /\ \A n \in names : ro(n) => (n \in DOMAIN env /\ env[n] = out.before[n])
            /\ (out.code # 0) <=> (\E n \in names : ro(n))

\* C4: read with a variable name and no input at all does not return
\* status 0 and leaves every variable as it was.
C4_ReadEndOfInput ==
    (Called("read") /\ ParseRead(out.args).ok /\ out.dupFail = {}
       /\ ~out.ioFail /\ out.input = <<>>) =>
        /\ ~(out.kind = "returned" /\ out.code = 0)
        /\ env = out.before

\* C7: after a successful read every named variable holds its field, and
\* the variables beyond the last field hold the empty value.
C7_ReadAssignsAll ==
    (Called("read") /\ out.kind = "returned" /\ out.code = 0) =>
        LET m      == ParseRead(out.args)
            fields == splitn(Acquire(<<>>, out.input, m.raw), Len(m.names),
                             IfsOf(out.before))
        IN  \A i \in 1..Len(m.names) :
                /\ has_var(env, m.names[i])
                /\ get_var(env, m.names[i]) =
                       IF i <= Len(fields)
                       THEN FieldValue(fields[i], m.raw).result
                       ELSE <<>>

\* C8: exec with arguments replaces the process only with a duplicate of
\* the shell's stream bound to each of descriptors 0, 1 and 2, whatever the
\* binding; a failed duplication means no replacement.
C8_ExecDuplicatesAll ==
    (Called("exec") /\ out.args # <<>>) =>
        /\ out.kind = "replaced" => \A i \in 0..2 : out.image.fd[i] = "dup"
        /\ (\E i \in out.execFail : raw_fd(fds[i])) => out.kind # "replaced"

\* the number a token of decimal digits denotes, -1 for any other token
RECURSIVE Decimal(_)
Decimal(tok) ==
    IF tok = <<>> THEN -1
    ELSE IF tok[Len(tok)] \notin 48..57 THEN -1
    ELSE IF Len(tok) = 1 THEN tok[1] - 48
    ELSE IF Decimal(Pop(tok)) = -1 THEN -1
    ELSE 10 * Decimal(Pop(tok)) + tok[Len(tok)] - 48

\* C9: exit ends the execution with a status in 0..255, delivered as an
\* exit signal: n mod 256 for a numeric argument, the last status without
\* an argument, a nonzero status for a non-numeric argument.
C9_ExitStatus ==
    (Called("exit") /\ out.dupFail = {}) =>
        /\ out.kind = "exit"
        /\ out.code \in 0..255
        /\ IF out.args = <<>> THEN out.code = out.prevStatus
           ELSE IF Decimal(out.args[1]) >= 0
                THEN out.code = Decimal(out.args[1]) % 256
                ELSE out.code # 0

(***************************************************************************)
(* The read pipeline on its own: Init draws the input, the -r flag, the    *)
(* number of variable names and IFS; ReadLine is one iteration of the      *)
(* acquisition loop and SplitAssign the split, the escape resolution and   *)
(* the assignments.                                                        *)
(***************************************************************************)
\* values of IFS: ":", ":\" and the empty string (no key: IFS is unset)
IfsValues == {<<58>>, <<58, BS>>, <<>>}

ReadEnvs ==
    {<<>>} \cup
    {[k \in {NameIFS} |-> [NoVar EXCEPT !.val = v, !.set = TRUE]] : v \in IfsValues}

ReadNames(n) == [i \in 1..n |-> VarName(i)]

InitRead ==
    /\ env \in ReadEnvs
    /\ funcs = {}
    /\ fds = [i \in 0..2 |-> "Piped"]
    /\ lastStatus = 0
    /\ out = [kind |-> "none"]
    /\ calls = 0
    /\ \E input \in Inputs, raw \in BOOLEAN, n \in 1..MaxVars :
           rd = [RdIdle EXCEPT !.pc = "acquire", !.input = input,
                               !.rest = input, !.raw = raw, !.n = n]

ReadLine ==
    /\ rd.pc = "acquire"
    /\ LET it == LoopIter(rd.buffer, rd.rest, rd.raw)
       IN  rd' = [rd EXCEPT !.pc = IF it.done THEN "split" ELSE "acquire",
                            !.prev = rd.buffer,
                            !.line = it.line,
                            !.buffer = it.buffer,
                            !.rest = it.input,
                            !.lines = rd.lines + 1]
    /\ UNCHANGED <<env, funcs, fds, lastStatus, out, calls>>

SplitAssign ==
    /\ rd.pc = "split"
    /\ LET ifs    == IfsOf(env)
           fields == splitn(rd.buffer, rd.n, ifs)
           used   == IF Len(fields) < rd.n THEN Len(fields) ELSE rd.n
       IN  /\ env' = AssignFields(env, ReadNames(rd.n), fields, rd.raw, 1)
           /\ rd' = [rd EXCEPT
                        !.pc = "done",
                        !.ifs = ifs,
                        !.fields = fields,
                        !.escapes = [i \in 1..used |->
                                        FieldValue(fields[i], rd.raw).in_escape]]
    /\ UNCHANGED <<funcs, fds, lastStatus, out, calls>>

NextRead == ReadLine \/ SplitAssign

SpecRead == InitRead /\ [][NextRead]_vars

(***************************************************************************)
(* Properties of the read pipeline, checked under SpecRead.                *)
(***************************************************************************)
\* a line without its terminating newline
StripTerminator(line) ==
    IF line # <<>> /\ line[Len(line)] = NL THEN Pop(line) ELSE line

\* the number of consecutive backslashes a byte string ends with
TrailingBackslashes(s) ==
    CHOOSE k \in 0..Len(s) :
        /\ \A i \in (Len(s) - k + 1)..Len(s) : s[i] = BS
        /\ k = Len(s) \/ s[Len(s) - k] # BS

\* the buffer of the last iteration once the line terminator is stripped
Stripped == rd.prev \o StripTerminator(rd.line)

\* the last iteration went on to read a further line
Continued == rd.pc = "acquire" /\ rd.lines >= 1

\* the last iteration ended the acquisition
Stopped == rd.pc = "split"

\* C5: after each iteration of the acquisition loop, a further line is read
\* if and only if -r is off and the stripped buffer ends with an odd number
\* of backslashes, and then exactly that one backslash is removed; with -r
\* one line is consumed and kept with every backslash.  "abc\<nl>def<nl>"
\* read into x gives "abcdef"; with -r "a\<nl>" gives "a\".
C5_BackslashParity ==
    /\ (Continued \/ Stopped) =>
          /\ Continued <=> (~rd.raw /\ TrailingBackslashes(Stripped) % 2 = 1)
          /\ Continued => rd.buffer = Pop(Stripped)
          /\ Stopped => rd.buffer = Stripped
          /\ rd.raw => /\ rd.lines = 1
                       /\ rd.buffer = StripTerminator(read_until(rd.input).line)
                       /\ rd.rest = read_until(rd.input).rest
    /\ (rd.pc = "done" /\ rd.n = 1 /\ ~rd.raw
          /\ rd.input = <<97, 98, 99, BS, NL, 100, 101, 102, NL>>)
         => env[VarName(1)].val = <<97, 98, 99, 100, 101, 102>>
    /\ (rd.pc = "done" /\ rd.n = 1 /\ rd.raw /\ rd.input = <<97, BS, NL>>)
         => env[VarName(1)].val = <<97, BS>>

\* a continuation was joined: "abc\<nl>def<nl>" assigned to x as "abcdef"
C5_Witness ==
    /\ rd.pc = "done" /\ ~rd.raw /\ rd.lines = 2
    /\ rd.input = <<97, 98, 99, BS, NL, 100, 101, 102, NL>>
    /\ env[VarName(1)].val = <<97, 98, 99, 100, 101, 102>>

\* where field i starts in the buffer when one byte separates the fields
RECURSIVE FieldStart(_, _)
FieldStart(f, i) ==
    IF i = 1 THEN 1 ELSE FieldStart(f, i - 1) + Len(f[i - 1]) + 1

\* C6: the fields are consecutive pieces of the assembled line, one
\* delimiter byte apart; each field but the last holds no delimiter and
\* ends at one, the last field runs to the end of the line, and there are
\* fewer than N fields only when the line has no further delimiter.
\* IFS=":" and "a:b:c" read into x y gives x = "a", y = "b:c".
C6_BoundedSplit ==
    /\ rd.pc = "done" =>
          LET f == rd.fields
              k == Len(f)
              b == rd.buffer
              D == Range(rd.ifs)
          IN  /\ k \in 1..rd.n
              /\ \A i \in 1..k :
                     f[i] = SubSeq(b, FieldStart(f, i),
                                   FieldStart(f, i) + Len(f[i]) - 1)
              /\ \A i \in 1..(k - 1) :
                     /\ b[FieldStart(f, i) + Len(f[i])] \in D
                     /\ Range(f[i]) \cap D = {}
              /\ FieldStart(f, k) + Len(f[k]) - 1 = Len(b)
              /\ k < rd.n => Range(f[k]) \cap D = {}
    /\ (rd.pc = "done" /\ rd.n = 2 /\ rd.ifs = <<58>>
          /\ rd.input = <<97, 58, 98, 58, 99, NL>>)
         => /\ env[VarName(1)].val = <<97>>
            /\ env[VarName(2)].val = <<98, 58, 99>>

\* a bounded split whose last field keeps a further delimiter
C6_Witness ==
    /\ rd.pc = "done" /\ rd.n = 2 /\ rd.ifs = <<58>>
    /\ rd.input = <<97, 58, 98, 58, 99, NL>>
    /\ rd.fields = << <<97>>, <<98, 58, 99>> >>

\* C10: without -r, the escape loop of every field ends with in_escape
\* cleared.
C10_NoDanglingEscape ==
    (rd.pc = "done" /\ ~rd.raw) =>
        \A i \in 1..Len(rd.escapes) : ~rd.escapes[i]

====
